---- MODULE Spec2Model ----
(***************************************************************************)
(* A model of the prattle Pratt-parser crate: the write-once rule tables   *)
(* of ParserSpec (spec.rs), the vector lexer LexerVec (lexer.rs) and the   *)
(* engine GeneralParser (parser.rs), with the syntax rules (handlers) that *)
(* the examples register.                                                  *)
(***************************************************************************)
EXTENDS Integers, Sequences, FiniteSets, TLC

VARIABLES null_map, left_map, built, lexer, consumed, last

vars == <<null_map, left_map, built, lexer, consumed, last>>

(***************************************************************************)
(* Bounds of the model.                                                    *)
(***************************************************************************)
\* precedence levels used by registrations and calls: Root .. Root + 5 * MaxLevel
MaxLevel == 2
\* longest token stream handed to LexerVec::new in the general specification
MaxLen == 4
\* most infix operators of an operand/operator chain in the expression specification
MaxOperators == 2
\* longest token list handed to a bulk registration
MaxList == 3

(***************************************************************************)
(* precedence.rs: enum PrecedenceLevel, ordered by its discriminant.       *)
(***************************************************************************)
Root == 0
First == 5
Second == 10
Third == 15
Fourth == 20
Fifth == 25
Sixth == 30
Seventh == 35
Eighth == 40

PrecedenceLevel == {Root, First, Second, Third, Fourth, Fifth, Sixth, Seventh, Eighth}

\* the levels the model's inputs are drawn from
Levels == {l \in PrecedenceLevel : l <= 5 * MaxLevel}

(***************************************************************************)
(* Tokens: a variant tag (the discriminant) and a payload.  Equality is    *)
(* equality of the whole value; rule lookup uses the discriminant only.    *)
(***************************************************************************)
Tok(k, s) == [kind |-> k, text |-> s]

\* a discriminant that tells payloads apart
discriminant_with_payload(tk) == tk.kind \o "/" \o tk.text

discriminant(tk) == tk.kind

Ident(s) == Tok("Ident", s)
Add == Tok("Add", "")
Mul == Tok("Mul", "")
Comma == Tok("Comma", "")
RParens == Tok("RParens", "")
LParens == Tok("LParens", "")
Question == Tok("Question", "")
Colon == Tok("Colon", "")
Ternary == Tok("Ternary", "")

(***************************************************************************)
(* Option, Result, Node and ParseError values.                             *)
(***************************************************************************)
None == [some |-> FALSE]
Some(x) == [some |-> TRUE, val |-> x]

Ok(x) == [tag |-> "Ok", val |-> x]
Err(e) == [tag |-> "Err", err |-> e]
\* the call never returns: unbounded recursion or a loop that makes no progress
Diverges == [tag |-> "Diverges"]

Unit == <<>>

Simple(tk) == [node |-> "Simple", token |-> tk, children |-> <<>>]
Composite(tk, ch) == [node |-> "Composite", token |-> tk, children |-> ch]

MalformedSyntax(node, tk) == [type |-> "MalformedSyntax", node |-> node, token |-> tk]
MissingRule(tk, ty) == [type |-> "MissingRule", token |-> tk, ty |-> ty]
Incomplete == [type |-> "Incomplete"]
ConsumeFailed(e, f) == [type |-> "ConsumeFailed", expected |-> e, found |-> f]

TokenToRuleAlreadyDefined(tk) == [type |-> "TokenToRuleAlreadyDefined", tk |-> tk]

(***************************************************************************)
(* lexer.rs: LexerVec.  index is 0-based as in the source; inner is a      *)
(* TLA+ sequence, so inner[index] of the source is inner[index + 1] here.  *)
(* impl names the implementation of trait Lexer the value belongs to.      *)
(***************************************************************************)
LexerVec_new(tokens) == [impl |-> "LexerVec", inner |-> tokens, index |-> 0]

peek(lx) ==
    IF lx.index < Len(lx.inner) THEN Some(lx.inner[lx.index + 1]) ELSE None

next_token(lx) ==
    [tk |-> lx.inner[lx.index + 1],
     lexer |-> IF lx.index + 1 < Len(lx.inner)
               THEN [lx EXCEPT !.index = lx.index + 1]
               ELSE lx]

(***************************************************************************)
(* lexer.rs: trait Lexer.  The engine is generic over L: Lexer<T>; the     *)
(* module documents that "the trait could be implemented by a stream       *)
(* adapter" whose next_token "moves Lexer forward to the next token,       *)
(* returning it", and whose peek returns None when no token is left.       *)
(* StreamAdapter is such an implementation over a finite stream.  Its      *)
(* next_token is called only after a peek that returned a token, as the    *)
(* trait requires of parsers.                                              *)
(***************************************************************************)
StreamAdapter_new(tokens) == [impl |-> "StreamAdapter", inner |-> tokens, index |-> 0]

StreamAdapter_next_token(lx) ==
    [tk |-> lx.inner[lx.index + 1],
     lexer |-> [lx EXCEPT !.index = lx.index + 1]]

\* <L as Lexer<T>>::next_token
Lexer_next_token(lx) ==
    IF lx.impl = "LexerVec" THEN next_token(lx) ELSE StreamAdapter_next_token(lx)

(***************************************************************************)
(* spec.rs: ParserSpec.  A map is a function whose domain is the set of    *)
(* discriminants that have an entry.  Each registration returns the new    *)
(* map with its Result.                                                    *)
(***************************************************************************)
EmptyMap == [k \in {} |-> None]

contains_key(m, k) == k \in DOMAIN m

get(m, k) == IF k \in DOMAIN m THEN Some(m[k]) ELSE None

insert(m, k, v) == [x \in (DOMAIN m) \cup {k} |-> IF x = k THEN v ELSE m[x]]

NullInfo(bp, func) == [bp |-> bp, func |-> func]
LeftInfo(lbp, rbp, func) == [lbp |-> lbp, rbp |-> rbp, func |-> func]

\* add_null_assoc that rejects a duplicate but has already overwritten the entry
add_null_assoc_overwrites(nm, token, bp, func) ==
    LET disc == discriminant(token) IN
    IF ~contains_key(nm, disc)
    THEN [map |-> insert(nm, disc, NullInfo(bp, func)), res |-> Ok(Unit)]
    ELSE [map |-> insert(nm, disc, NullInfo(bp, func)),
          res |-> Err(TokenToRuleAlreadyDefined(token))]

\* add_null_assoc that also rejects a kind with an infix entry
add_null_assoc_one_table(nm, token, bp, func) ==
    LET disc == discriminant(token) IN
    IF ~contains_key(nm, disc) /\ ~contains_key(left_map, disc)
    THEN [map |-> insert(nm, disc, NullInfo(bp, func)), res |-> Ok(Unit)]
    ELSE [map |-> nm, res |-> Err(TokenToRuleAlreadyDefined(token))]

add_null_assoc(nm, token, bp, func) ==
    LET disc == discriminant(token) IN
    IF ~contains_key(nm, disc)
    THEN [map |-> insert(nm, disc, NullInfo(bp, func)), res |-> Ok(Unit)]
    ELSE [map |-> nm, res |-> Err(TokenToRuleAlreadyDefined(token))]

\* add_left_assoc that leaves the right binding power at Root
add_left_assoc_right_at_Root(lm, token, bp, func) ==
    LET disc == discriminant(token) IN
    IF ~contains_key(lm, disc)
    THEN [map |-> insert(lm, disc, LeftInfo(bp, Root, func)), res |-> Ok(Unit)]
    ELSE [map |-> lm, res |-> Err(TokenToRuleAlreadyDefined(token))]

add_left_assoc(lm, token, bp, func) ==
    LET disc == discriminant(token) IN
    IF ~contains_key(lm, disc)
    THEN [map |-> insert(lm, disc, LeftInfo(bp, bp, func)), res |-> Ok(Unit)]
    ELSE [map |-> lm, res |-> Err(TokenToRuleAlreadyDefined(token))]

add_left_right_assoc(lm, token, lbp, rbp, func) ==
    LET disc == discriminant(token) IN
    IF ~contains_key(lm, disc)
    THEN [map |-> insert(lm, disc, LeftInfo(lbp, rbp, func)), res |-> Ok(Unit)]
    ELSE [map |-> lm, res |-> Err(TokenToRuleAlreadyDefined(token))]

(***************************************************************************)
(* spec.rs: the bulk registrations.  Each registers the tokens in list     *)
(* order and returns at the first registration that fails (`?`); the       *)
(* macros of macros.rs expand to the same sequence of single               *)
(* registrations, each followed by `?`.                                    *)
(***************************************************************************)
RECURSIVE add_null_associations(_, _, _, _)
RECURSIVE add_left_associations(_, _, _, _)
RECURSIVE add_left_right_associations(_, _, _, _, _)

\* add_null_associations that skips a duplicate, registers the rest and then fails
add_null_associations_skips(nm, tokens, bp, func) ==
    IF tokens = <<>> THEN [map |-> nm, res |-> Ok(Unit)]
    ELSE LET r == add_null_assoc(nm, Head(tokens), bp, func)
             rest == add_null_associations(r.map, Tail(tokens), bp, func)
         IN  IF r.res.tag = "Err" THEN [map |-> rest.map, res |-> r.res] ELSE rest

add_null_associations(nm, tokens, bp, func) ==
    IF tokens = <<>> THEN [map |-> nm, res |-> Ok(Unit)]
    ELSE LET r == add_null_assoc(nm, Head(tokens), bp, func) IN
         IF r.res.tag = "Err" THEN r
         ELSE add_null_associations(r.map, Tail(tokens), bp, func)

add_left_associations(lm, tokens, bp, func) ==
    IF tokens = <<>> THEN [map |-> lm, res |-> Ok(Unit)]
    ELSE LET r == add_left_assoc(lm, Head(tokens), bp, func) IN
         IF r.res.tag = "Err" THEN r
         ELSE add_left_associations(r.map, Tail(tokens), bp, func)

add_left_right_associations(lm, tokens, lbp, rbp, func) ==
    IF tokens = <<>> THEN [map |-> lm, res |-> Ok(Unit)]
    ELSE LET r == add_left_right_assoc(lm, Head(tokens), lbp, rbp, func) IN
         IF r.res.tag = "Err" THEN r
         ELSE add_left_right_associations(r.map, Tail(tokens), lbp, rbp, func)

(***************************************************************************)
(* parser.rs: GeneralParser.  self is the engine: its two tables and its   *)
(* lexer, with the log of the lexer calls and handler invocations it has   *)
(* made.  Every operation returns the engine after the call and the value  *)
(* returned.                                                               *)
(***************************************************************************)
GeneralParser_new(nm, lm, lx) ==
    [null_map |-> nm, left_map |-> lm, lexer |-> lx, log |-> <<>>]

EvPeek(i) == <<"peek", i>>
EvNext(i, tk) == <<"next_token", i, tk>>
EvNull(tk, bp) == <<"null", tk, bp>>
EvLeft(tk, bp, left) == <<"left", tk, bp, left>>
\* an outcome of a parse_expr call made by parse_sequence
EvExpr(res) == <<"parse_expr", res>>
\* a registered rule returned the error e
EvErr(e) == <<"handler_err", e>>

Logged(self, ev) == [self EXCEPT !.log = Append(@, ev)]

\* self.lexer.peek()
Peeked(self) == Logged(self, EvPeek(self.lexer.index))

\* self.lexer.next_token() called twice in a row
Advance_twice(self) ==
    LET nt == Lexer_next_token(self.lexer)
        nt2 == Lexer_next_token(nt.lexer)
    IN  [self EXCEPT !.lexer = nt2.lexer,
                     !.log = Append(Append(@, EvNext(self.lexer.index, nt.tk)),
                                    EvNext(nt.lexer.index, nt2.tk))]

\* self.lexer.next_token()
Advance(self) ==
    LET nt == Lexer_next_token(self.lexer) IN
    [self EXCEPT !.lexer = nt.lexer,
                 !.log = Append(@, EvNext(self.lexer.index, nt.tk))]

\* the return of a registered rule, an error it returns logged
Handled(r) ==
    IF r.res.tag = "Err"
    THEN [self |-> Logged(r.self, EvErr(r.res.err)), res |-> r.res]
    ELSE r

\* next_binds_tighter_than with the comparison `>=` in place of `>`
next_binds_tighter_than_ge(self, rbp) ==
    LET pk == peek(self.lexer) IN
    [self |-> Peeked(self),
     val |-> IF pk.some
             THEN LET e == get(self.left_map, discriminant(pk.val)) IN
                  IF e.some THEN e.val.rbp >= rbp ELSE FALSE
             ELSE FALSE]

\* next_binds_tighter_than that takes the token it looks at
next_binds_tighter_than_consumes(self, rbp) ==
    LET pk == peek(self.lexer) IN
    [self |-> IF pk.some THEN Advance(Peeked(self)) ELSE Peeked(self),
     val |-> IF pk.some
             THEN LET e == get(self.left_map, discriminant(pk.val)) IN
                  IF e.some THEN e.val.rbp > rbp ELSE FALSE
             ELSE FALSE]

\* next_binds_tighter_than comparing the entry's left binding power
\* (`Some((next_lbp, _, _))`)
next_binds_tighter_than_lbp(self, rbp) ==
    LET pk == peek(self.lexer) IN
    [self |-> Peeked(self),
     val |-> IF pk.some
             THEN LET e == get(self.left_map, discriminant(pk.val)) IN
                  IF e.some THEN e.val.lbp > rbp ELSE FALSE
             ELSE FALSE]

\* next_binds_tighter_than that lets a token without an infix entry pass
next_binds_tighter_than_no_entry(self, rbp) ==
    LET pk == peek(self.lexer) IN
    [self |-> Peeked(self),
     val |-> IF pk.some
             THEN LET e == get(self.left_map, discriminant(pk.val)) IN
                  IF e.some THEN e.val.rbp > rbp ELSE TRUE
             ELSE FALSE]

next_binds_tighter_than(self, rbp) ==
    LET pk == peek(self.lexer) IN
    [self |-> Peeked(self),
     val |-> IF pk.some
             THEN LET e == get(self.left_map, discriminant(pk.val)) IN
                  IF e.some THEN e.val.rbp > rbp ELSE FALSE
             ELSE FALSE]

\* consume that steps the lexer back when the token is not the expected one
consume_rewinds(self, end_token) ==
    LET pk == peek(self.lexer) IN
    IF pk.some
    THEN IF pk.val = end_token
         THEN [self |-> Advance(Peeked(self)), res |-> Ok(Unit)]
         ELSE [self |-> [Peeked(self) EXCEPT !.lexer.index = IF @ > 0 THEN @ - 1 ELSE @],
               res |-> Err(ConsumeFailed(end_token, pk.val))]
    ELSE [self |-> Peeked(self), res |-> Err(Incomplete)]

\* consume reporting an unexpected token as MalformedSyntax
consume_malformed(self, end_token) ==
    LET pk == peek(self.lexer) IN
    IF pk.some
    THEN IF pk.val = end_token
         THEN [self |-> Advance(Peeked(self)), res |-> Ok(Unit)]
         ELSE [self |-> Peeked(self), res |-> Err(MalformedSyntax(Simple(pk.val), pk.val))]
    ELSE [self |-> Peeked(self), res |-> Err(Incomplete)]

consume(self, end_token) ==
    LET pk == peek(self.lexer) IN
    IF pk.some
    THEN IF pk.val = end_token
         THEN [self |-> Advance(Peeked(self)), res |-> Ok(Unit)]
         ELSE [self |-> Peeked(self), res |-> Err(ConsumeFailed(end_token, pk.val))]
    ELSE [self |-> Peeked(self), res |-> Err(Incomplete)]

(***************************************************************************)
(* parse_expr, its infix loop and the registered syntax rules call each    *)
(* other.  `active` holds <<index, rbp>> of every parse_expr call in       *)
(* progress: a nested call with the same rbp at the same index sees the    *)
(* state its caller saw and repeats it for ever; an iteration of a loop    *)
(* that ends at the index it started at is repeated for ever.  Both are    *)
(* reported as Diverges.                                                   *)
(***************************************************************************)
RECURSIVE parse_expr(_, _, _)
RECURSIVE infix_loop(_, _, _, _)
RECURSIVE null_denotation(_, _, _, _, _)
RECURSIVE left_denotation(_, _, _, _, _, _)

\* examples/token_spec.rs: the rules token_spec registers.
\*   Leaf:   |_, token, _| Ok(Node::Simple(token))
\*   Parens: |parser, _, lbp| { let res = parser.parse_expr(lbp)?;
\*                             parser.consume(Token::RParens)?; Ok(res) }
\*   Binary: |parser, token, lbp, node|
\*             Ok(Node::Composite{token, children: vec![node, parser.parse_expr(lbp)?]})
null_denotation(func, self, tk, bp, active) ==
    LET s == Logged(self, EvNull(tk, bp)) IN
    CASE func = "Leaf" -> [self |-> s, res |-> Ok(Simple(tk))]
      [] func = "Parens" ->
        LET r == parse_expr(s, bp, active) IN
        IF r.res.tag # "Ok" THEN r
        ELSE LET c == consume(r.self, RParens) IN
             IF c.res.tag = "Ok" THEN [self |-> c.self, res |-> r.res] ELSE c

\* the rule c_spec.rs registers for an identifier in infix position: it reads no
\* input (as the `?`, `*` and `+` rules of ebnf_spec.rs)
Postfix(self, tk, node) == [self |-> self, res |-> Ok(Composite(tk, <<node>>))]

\* the ternary rule of c_spec.rs after its second `parser.parse_expr(lbp)?`
TernaryElse(tern_expr, post_q_expr, r) ==
    IF r.res.tag = "Ok"
    THEN [self |-> r.self,
          res |-> Ok(Composite(Ternary, <<tern_expr, post_q_expr, r.res.val>>))]
    ELSE r

\* ... after `parser.consume(CToken::Colon)`: only ConsumeFailed is matched
TernaryColon(tern_expr, post_q_expr, c, lbp, active) ==
    IF c.res.tag = "Err" /\ c.res.err.type = "ConsumeFailed"
    THEN [self |-> c.self, res |-> Err(MalformedSyntax(post_q_expr, c.res.err.found))]
    ELSE TernaryElse(tern_expr, post_q_expr, parse_expr(c.self, lbp, active))

\* ... after its first `parser.parse_expr(lbp)?`
TernaryThen(tern_expr, r, lbp, active) ==
    IF r.res.tag = "Ok"
    THEN TernaryColon(tern_expr, r.res.val, consume(r.self, Colon), lbp, active)
    ELSE r

left_denotation(func, self, tk, lbp, left, active) ==
    LET s == Logged(self, EvLeft(tk, lbp, left)) IN
    CASE func = "Binary" ->
        LET r == parse_expr(s, lbp, active) IN
        IF r.res.tag = "Ok"
        THEN [self |-> r.self, res |-> Ok(Composite(tk, <<left, r.res.val>>))]
        ELSE r
      [] func = "Postfix" -> Postfix(s, tk, left)
      [] func = "Ternary" -> TernaryThen(left, parse_expr(s, lbp, active), lbp, active)

\* infix_loop handing the operator's right binding power to its rule
\* (`let (_, lbp, func) = val`)
infix_loop_passes_rbp(self, rbp, left, active) ==
    LET c == next_binds_tighter_than(self, rbp) IN
    IF ~c.val
    THEN [self |-> c.self, res |-> Ok(left)]
    ELSE LET tk == Lexer_next_token(c.self.lexer).tk
             s1 == Advance(c.self)
             v == get(s1.left_map, discriminant(tk))
         IN  IF ~v.some
             THEN [self |-> s1, res |-> Err(MissingRule(tk, "Left"))]
             ELSE LET h == Handled(left_denotation(v.val.func, s1, tk, v.val.rbp, left, active)) IN
                  IF h.res.tag # "Ok" THEN h
                  ELSE IF h.self.lexer.index = self.lexer.index
                       THEN [self |-> h.self, res |-> Diverges]
                       ELSE infix_loop(h.self, rbp, h.res.val, active)

\* infix_loop that drops an operator whose rule failed and returns the left node
infix_loop_swallows_error(self, rbp, left, active) ==
    LET c == next_binds_tighter_than(self, rbp) IN
    IF ~c.val
    THEN [self |-> c.self, res |-> Ok(left)]
    ELSE LET tk == Lexer_next_token(c.self.lexer).tk
             s1 == Advance(c.self)
             v == get(s1.left_map, discriminant(tk))
         IN  IF ~v.some
             THEN [self |-> s1, res |-> Err(MissingRule(tk, "Left"))]
             ELSE LET h == Handled(left_denotation(v.val.func, s1, tk, v.val.lbp, left, active)) IN
                  IF h.res.tag = "Err" THEN [self |-> h.self, res |-> Ok(left)]
                  ELSE IF h.res.tag # "Ok" THEN h
                  ELSE IF h.self.lexer.index = self.lexer.index
                       THEN [self |-> h.self, res |-> Diverges]
                       ELSE infix_loop(h.self, rbp, h.res.val, active)

\* the while loop of parse_expr
infix_loop(self, rbp, left, active) ==
    LET c == next_binds_tighter_than(self, rbp) IN
    IF ~c.val
    THEN [self |-> c.self, res |-> Ok(left)]
    ELSE LET tk == Lexer_next_token(c.self.lexer).tk
             s1 == Advance(c.self)
             v == get(s1.left_map, discriminant(tk))
         IN  IF ~v.some
             THEN [self |-> s1, res |-> Err(MissingRule(tk, "Left"))]
             ELSE LET h == Handled(left_denotation(v.val.func, s1, tk, v.val.lbp, left, active)) IN
                  IF h.res.tag # "Ok" THEN h
                  ELSE IF h.self.lexer.index = self.lexer.index
                       THEN [self |-> h.self, res |-> Diverges]
                       ELSE infix_loop(h.self, rbp, h.res.val, active)

\* parse_expr whose loop tests against Root instead of its rbp
parse_expr_ignores_rbp(self, rbp, active) ==
    LET pk == peek(self.lexer)
        here == <<self.lexer.index, rbp>>
    IN  IF ~pk.some
        THEN [self |-> Peeked(self), res |-> Err(Incomplete)]
        ELSE IF here \in active
        THEN [self |-> Peeked(self), res |-> Diverges]
        ELSE LET tk == pk.val
                 s1 == Advance(Peeked(self))
                 val == get(s1.null_map, discriminant(tk))
             IN  IF ~val.some
                 THEN [self |-> s1, res |-> Err(MissingRule(tk, "Null"))]
                 ELSE LET n == Handled(null_denotation(val.val.func, s1, tk, val.val.bp,
                                                       active \cup {here}))
                      IN  IF n.res.tag # "Ok" THEN n
                          ELSE infix_loop(n.self, Root, n.res.val, active \cup {here})

\* parse_expr reporting the end of the stream as a missing rule
parse_expr_eof_missing_rule(self, rbp, active) ==
    LET pk == peek(self.lexer)
        here == <<self.lexer.index, rbp>>
    IN  IF ~pk.some
        THEN [self |-> Peeked(self), res |-> Err(MissingRule(Tok("", ""), "Null"))]
        ELSE IF here \in active
        THEN [self |-> Peeked(self), res |-> Diverges]
        ELSE LET tk == pk.val
                 s1 == Advance(Peeked(self))
                 val == get(s1.null_map, discriminant(tk))
             IN  IF ~val.some
                 THEN [self |-> s1, res |-> Err(MissingRule(tk, "Null"))]
                 ELSE LET n == Handled(null_denotation(val.val.func, s1, tk, val.val.bp,
                                                       active \cup {here}))
                      IN  IF n.res.tag # "Ok" THEN n
                          ELSE infix_loop(n.self, rbp, n.res.val, active \cup {here})

\* parse_expr that takes the prefix entry out of the table (`remove` for `get`)
parse_expr_removes_rule(self, rbp, active) ==
    LET pk == peek(self.lexer)
        here == <<self.lexer.index, rbp>>
    IN  IF ~pk.some
        THEN [self |-> Peeked(self), res |-> Err(Incomplete)]
        ELSE IF here \in active
        THEN [self |-> Peeked(self), res |-> Diverges]
        ELSE LET tk == pk.val
                 s0 == Advance(Peeked(self))
                 val == get(s0.null_map, discriminant(tk))
                 s1 == [s0 EXCEPT !.null_map =
                           [k \in (DOMAIN @) \ {discriminant(tk)} |-> @[k]]]
             IN  IF ~val.some
                 THEN [self |-> s1, res |-> Err(MissingRule(tk, "Null"))]
                 ELSE LET n == Handled(null_denotation(val.val.func, s1, tk, val.val.bp,
                                               active \cup {here}))
                      IN  IF n.res.tag # "Ok" THEN n
                          ELSE infix_loop(n.self, rbp, n.res.val, active \cup {here})

\* parse_expr handing the prefix rule its own rbp
parse_expr_passes_rbp(self, rbp, active) ==
    LET pk == peek(self.lexer)
        here == <<self.lexer.index, rbp>>
    IN  IF ~pk.some
        THEN [self |-> Peeked(self), res |-> Err(Incomplete)]
        ELSE IF here \in active
        THEN [self |-> Peeked(self), res |-> Diverges]
        ELSE LET tk == pk.val
                 s1 == Advance(Peeked(self))
                 val == get(s1.null_map, discriminant(tk))
             IN  IF ~val.some
                 THEN [self |-> s1, res |-> Err(MissingRule(tk, "Null"))]
                 ELSE LET n == Handled(null_denotation(val.val.func, s1, tk, rbp,
                                                       active \cup {here}))
                      IN  IF n.res.tag # "Ok" THEN n
                          ELSE infix_loop(n.self, rbp, n.res.val, active \cup {here})

parse_expr(self, rbp, active) ==
    LET pk == peek(self.lexer)
        here == <<self.lexer.index, rbp>>
    IN  IF ~pk.some
        THEN [self |-> Peeked(self), res |-> Err(Incomplete)]
        ELSE IF here \in active
        THEN [self |-> Peeked(self), res |-> Diverges]
        ELSE LET tk == pk.val
                 s1 == Advance(Peeked(self))
                 val == get(s1.null_map, discriminant(tk))
             IN  IF ~val.some
                 THEN [self |-> s1, res |-> Err(MissingRule(tk, "Null"))]
                 ELSE LET n == Handled(null_denotation(val.val.func, s1, tk, val.val.bp,
                                                       active \cup {here}))
                      IN  IF n.res.tag # "Ok" THEN n
                          ELSE infix_loop(n.self, rbp, n.res.val, active \cup {here})

\* parse starting from First instead of Root
parse_from_First(self) == parse_expr(self, First, {})

parse(self) == parse_expr(self, Root, {})

\* the value parse_sequence returns
Returned(results) == [tag |-> "Returned", val |-> results]

\* a parse_expr call of parse_sequence, its outcome logged
WithOutcome(r) == [self |-> Logged(r.self, EvExpr(r.res)), res |-> r.res]

RECURSIVE parse_sequence_loop(_, _, _, _, _)

parse_sequence_loop(self, prec_level, sep, end_token, results) ==
    LET r == WithOutcome(parse_expr(self, prec_level, {}))
        res == r.res
        \* the next iteration of the loop, entered after `s` with `rs` collected
        Again(s, rs) ==
            IF s.lexer.index = self.lexer.index
            THEN [self |-> s, res |-> Diverges]
            ELSE parse_sequence_loop(s, prec_level, sep, end_token, rs)
    IN  IF res.tag = "Diverges" THEN r
        ELSE IF res.tag = "Ok"
        THEN IF sep.some
             THEN LET c == consume(r.self, sep.val) IN
                  IF c.res.tag = "Ok"
                  THEN Again(c.self, Append(results, res))
                  ELSE IF c.res.err.type = "ConsumeFailed"
                  THEN LET found == c.res.err.found IN
                       IF end_token.some
                       THEN IF end_token.val = found
                            THEN LET c2 == consume(c.self, found) IN
                                 IF c2.res.tag = "Ok"
                                 THEN [self |-> c2.self, res |-> Returned(results)]
                                 ELSE [self |-> c2.self,
                                       res |-> Returned(Append(results, c2.res))]
                            ELSE [self |-> c.self,
                                  res |-> Returned(Append(results,
                                             Err(ConsumeFailed(sep.val, found))))]
                       ELSE [self |-> c.self,
                             res |-> Returned(Append(results,
                                        Err(ConsumeFailed(sep.val, found))))]
                  ELSE Again(c.self, Append(Append(results, c.res), res))
             ELSE Again(r.self, Append(results, res))
        ELSE IF res.err.type = "Incomplete" /\ ~end_token.some
             THEN [self |-> r.self, res |-> Returned(results)]
             ELSE [self |-> r.self, res |-> Returned(Append(results, res))]

parse_sequence(self, prec_level, sep, end_token) ==
    parse_sequence_loop(self, prec_level, sep, end_token, <<>>)

(***************************************************************************)
(* The state machine.  A ParserSpec is built by registrations, handed     *)
(* with a lexer to GeneralParser::new, and the engine is then called.      *)
(* `last` records the last call: its name, arguments, the lexer and the    *)
(* number of tokens delivered before it, its result and its log.           *)
(* `consumed` counts the tokens of the stream that next_token has          *)
(* delivered (the highest position delivered so far).                      *)
(***************************************************************************)
Max(a, b) == IF a >= b THEN a ELSE b

RECURSIVE Delivered(_)
Delivered(log) ==
    IF log = <<>> THEN 0
    ELSE LET e == Head(log) IN
         Max(IF e[1] = "next_token" THEN e[2] + 1 ELSE 0, Delivered(Tail(log)))

Call(op, arg, res, log) ==
    [op |-> op, arg |-> arg, pre |-> lexer, was |-> consumed, res |-> res, log |-> log]

Init ==
    /\ null_map = EmptyMap
    /\ left_map = EmptyMap
    /\ built = FALSE
    /\ lexer = LexerVec_new(<<>>)
    /\ consumed = 0
    /\ last = [op |-> "ParserSpec::new", arg |-> <<>>, pre |-> LexerVec_new(<<>>),
               was |-> 0, res |-> Ok(Unit), log |-> <<>>]

AddNullAssoc(token, bp, func) ==
    /\ ~built
    /\ LET r == add_null_assoc(null_map, token, bp, func) IN
       /\ null_map' = r.map
       /\ last' = Call("add_null_assoc", [token |-> token, bp |-> bp, func |-> func],
                       r.res, <<>>)
    /\ UNCHANGED <<left_map, built, lexer, consumed>>

AddLeftAssoc(token, bp, func) ==
    /\ ~built
    /\ LET r == add_left_assoc(left_map, token, bp, func) IN
       /\ left_map' = r.map
       /\ last' = Call("add_left_assoc", [token |-> token, bp |-> bp, func |-> func],
                       r.res, <<>>)
    /\ UNCHANGED <<null_map, built, lexer, consumed>>

AddLeftRightAssoc(token, lbp, rbp, func) ==
    /\ ~built
    /\ LET r == add_left_right_assoc(left_map, token, lbp, rbp, func) IN
       /\ left_map' = r.map
       /\ last' = Call("add_left_right_assoc",
                       [token |-> token, lbp |-> lbp, rbp |-> rbp, func |-> func],
                       r.res, <<>>)
    /\ UNCHANGED <<null_map, built, lexer, consumed>>

AddNullAssociations(tokens, bp, func) ==
    /\ ~built
    /\ LET r == add_null_associations(null_map, tokens, bp, func) IN
       /\ null_map' = r.map
       /\ last' = Call("add_null_associations",
                       [tokens |-> tokens, bp |-> bp, func |-> func], r.res, <<>>)
    /\ UNCHANGED <<left_map, built, lexer, consumed>>

AddLeftAssociations(tokens, bp, func) ==
    /\ ~built
    /\ LET r == add_left_associations(left_map, tokens, bp, func) IN
       /\ left_map' = r.map
       /\ last' = Call("add_left_associations",
                       [tokens |-> tokens, bp |-> bp, func |-> func], r.res, <<>>)
    /\ UNCHANGED <<null_map, built, lexer, consumed>>

AddLeftRightAssociations(tokens, lbp, rbp, func) ==
    /\ ~built
    /\ LET r == add_left_right_associations(left_map, tokens, lbp, rbp, func) IN
       /\ left_map' = r.map
       /\ last' = Call("add_left_right_associations",
                       [tokens |-> tokens, lbp |-> lbp, rbp |-> rbp, func |-> func],
                       r.res, <<>>)
    /\ UNCHANGED <<null_map, built, lexer, consumed>>

\* GeneralParser::new(spec, LexerVec::new(tokens))
New(tokens) ==
    /\ ~built
    /\ built' = TRUE
    /\ lexer' = LexerVec_new(tokens)
    /\ consumed' = 0
    /\ last' = Call("GeneralParser::new", tokens, Ok(Unit), <<>>)
    /\ UNCHANGED <<null_map, left_map>>

\* GeneralParser::new(spec, lexer) with a stream adapter as the lexer
NewStream(tokens) ==
    /\ ~built
    /\ built' = TRUE
    /\ lexer' = StreamAdapter_new(tokens)
    /\ consumed' = 0
    /\ last' = Call("GeneralParser::new", tokens, Ok(Unit), <<>>)
    /\ UNCHANGED <<null_map, left_map>>

Engine == GeneralParser_new(null_map, left_map, lexer)

\* the engine after a call that returned `out`
Ran(op, arg, out, res) ==
    /\ null_map' = out.self.null_map
    /\ left_map' = out.self.left_map
    /\ lexer' = out.self.lexer
    /\ consumed' = Max(consumed, Delivered(out.self.log))
    /\ last' = Call(op, arg, res, out.self.log)
    /\ UNCHANGED built

Parse ==
    /\ built
    /\ LET out == parse(Engine) IN Ran("parse", <<>>, out, out.res)

ParseExpr(rbp) ==
    /\ built
    /\ LET out == parse_expr(Engine, rbp, {}) IN Ran("parse_expr", rbp, out, out.res)

ParseSequence(prec_level, sep, end_token) ==
    /\ built
    /\ LET out == parse_sequence(Engine, prec_level, sep, end_token) IN
       Ran("parse_sequence",
           [prec_level |-> prec_level, sep |-> sep, end_token |-> end_token],
           out, out.res)

NextBindsTighterThan(rbp) ==
    /\ built
    /\ LET out == next_binds_tighter_than(Engine, rbp) IN
       Ran("next_binds_tighter_than", rbp, out, out.val)

Consume(end_token) ==
    /\ built
    /\ LET out == consume(Engine, end_token) IN Ran("consume", end_token, out, out.res)

(***************************************************************************)
(* Spec: the engine on arbitrary short token streams, with leaf prefix     *)
(* rules and one infix rule to choose from.                                *)
(***************************************************************************)
RECURSIVE SeqsUpTo(_, _)
SeqsUpTo(S, n) ==
    IF n = 0 THEN {<<>>}
    ELSE LET shorter == SeqsUpTo(S, n - 1) IN
         shorter \cup {Append(q, x) : q \in {p \in shorter : Len(p) = n - 1}, x \in S}

OperandNames == <<"a", "b", "c", "d", "e", "f">>

Kinds == {"Ident", "Comma", "RParens"}

\* the stream of the given kinds; its identifiers are named a, b, c ... in order
Stream(shape) ==
    [i \in 1..Len(shape) |->
        IF shape[i] = "Ident"
        THEN Ident(OperandNames[Cardinality({j \in 1..i : shape[j] = "Ident"})])
        ELSE Tok(shape[i], "")]

Streams == {Stream(shape) : shape \in SeqsUpTo(Kinds, MaxLen)}

\* the tokens handed to consume
Tokens == {Ident("a"), Ident("b"), Comma, RParens}

Register ==
    \/ AddNullAssoc(Ident(""), Root, "Leaf")
    \/ AddLeftAssoc(Comma, First, "Binary")

Next ==
    \/ Register
    \/ \E tokens \in Streams : New(tokens)
    \/ Parse
    \/ \E rbp \in Levels : ParseExpr(rbp)
    \/ \E sep \in {None, Some(Comma)}, end_token \in {None, Some(RParens)} :
          ParseSequence(Root, sep, end_token)
    \/ \E rbp \in Levels : NextBindsTighterThan(rbp)
    \/ \E end_token \in Tokens : Consume(end_token)

Spec == Init /\ [][Next]_vars

(***************************************************************************)
(* SpecStream: the engine of Spec over a stream adapter instead of a       *)
(* LexerVec.                                                               *)
(***************************************************************************)
NextStream ==
    \/ Register
    \/ \E tokens \in Streams : NewStream(tokens)
    \/ Parse
    \/ \E sep \in {None, Some(Comma)}, end_token \in {None, Some(RParens)} :
          ParseSequence(Root, sep, end_token)
    \/ \E end_token \in Tokens : Consume(end_token)

SpecStream == Init /\ [][NextStream]_vars

(***************************************************************************)
(* SpecRules: the grammar of token_spec over arbitrary short streams: the  *)
(* leaf rule for identifiers, the parenthesis rule for '(' and the binary  *)
(* rule for Add.                                                           *)
(***************************************************************************)
RuleTokens == {Ident("a"), Add, LParens, RParens}

RuleStreams == SeqsUpTo(RuleTokens, MaxLen)

RegisterRules ==
    \/ AddNullAssoc(Ident(""), Root, "Leaf")
    \/ AddNullAssoc(LParens, First, "Parens")
    \/ AddLeftAssoc(Add, First, "Binary")

NextRules ==
    \/ RegisterRules
    \/ \E tokens \in RuleStreams : New(tokens)
    \/ Parse
    \/ \E rbp \in Levels : ParseExpr(rbp)

SpecRules == Init /\ [][NextRules]_vars

(***************************************************************************)
(* SpecTables: building a ParserSpec with single and bulk registrations,   *)
(* for tokens of two kinds, identifiers with two payloads; then parsing  *)
(* a few streams with it.                                                  *)
(***************************************************************************)
TableTokens == {Ident(""), Ident("x"), Add}

\* the token lists handed to a bulk registration
TokenLists == SeqsUpTo({Ident("x"), Add}, MaxList)

TableLevels == {First, Second}

TableStreams ==
    {<<Ident("x")>>,
     <<Ident("y"), Ident("x"), Ident("y"), Add>>,
     <<Ident("x"), Add, Ident("y")>>}

RegisterTables ==
    \/ \E token \in TableTokens : AddNullAssoc(token, Root, "Leaf")
    \/ \E token \in TableTokens, bp \in TableLevels : AddLeftAssoc(token, bp, "Binary")
    \/ \E token \in TableTokens, bp \in TableLevels :
          AddLeftRightAssoc(token, bp, Second, "Binary")
    \/ \E tokens \in TokenLists : AddNullAssociations(tokens, Root, "Leaf")
    \/ \E tokens \in TokenLists : AddLeftAssociations(tokens, First, "Binary")
    \/ \E tokens \in TokenLists : AddLeftRightAssociations(tokens, First, Second, "Binary")

NextTables ==
    \/ RegisterTables
    \/ \E tokens \in TableStreams : New(tokens)
    \/ Parse

SpecTables == Init /\ [][NextTables]_vars

(***************************************************************************)
(* SpecC: a fragment of the grammar of c_spec.rs: identifiers, an          *)
(* identifier in infix position as a postfix rule that reads no input, and *)
(* the ternary rule, which returns MalformedSyntax when `:` is not found.  *)
(***************************************************************************)
CTokens == {Ident("a"), Question, Colon}

CStreams == SeqsUpTo(CTokens, MaxLen)

RegisterC ==
    \/ AddNullAssoc(Ident(""), Root, "Leaf")
    \/ AddLeftAssoc(Ident(""), Second, "Postfix")
    \/ AddLeftAssoc(Question, First, "Ternary")

NextC ==
    \/ RegisterC
    \/ \E tokens \in CStreams : New(tokens)
    \/ Parse
    \/ \E rbp \in Levels : ParseExpr(rbp)
    \/ \E sep \in {None, Some(Colon)} : ParseSequence(Root, sep, None)
    \/ \E end_token \in CTokens : Consume(end_token)

SpecC == Init /\ [][NextC]_vars

(***************************************************************************)
(* SpecLexer: a LexerVec used on its own.  It is built once from a token   *)
(* vector, extended, peeked and advanced; next_token is called where the   *)
(* trait allows it, after a peek that returned a token.  last.log holds    *)
(* the next_token calls made since the lexer was built, last.res what the  *)
(* last call returned.                                                     *)
(***************************************************************************)
LexerTokens == {Ident("a"), Ident("b"), Comma}

\* <LexerVec as Extend>::extend
extend(lx, tokens) == [lx EXCEPT !.inner = @ \o tokens]

LexerNew(tokens) ==
    /\ last.op = "ParserSpec::new"
    /\ lexer' = LexerVec_new(tokens)
    /\ consumed' = 0
    /\ last' = Call("LexerVec::new", tokens, Ok(Unit), <<>>)
    /\ UNCHANGED <<null_map, left_map, built>>

LexerPeek ==
    /\ last' = Call("peek", <<>>, peek(lexer), last.log)
    /\ UNCHANGED <<null_map, left_map, built, lexer, consumed>>

LexerNextToken ==
    /\ peek(lexer).some
    /\ Len(last.log) <= MaxLen
    /\ LET nt == next_token(lexer) IN
       /\ lexer' = nt.lexer
       /\ consumed' = Max(consumed, lexer.index + 1)
       /\ last' = Call("next_token", <<>>, nt.tk,
                       Append(last.log, EvNext(lexer.index, nt.tk)))
    /\ UNCHANGED <<null_map, left_map, built>>

LexerExtend(tokens) ==
    /\ Len(lexer.inner) + Len(tokens) <= MaxLen
    /\ lexer' = extend(lexer, tokens)
    /\ last' = Call("extend", tokens, Ok(Unit), last.log)
    /\ UNCHANGED <<null_map, left_map, built, consumed>>

NextLexer ==
    \/ \E tokens \in SeqsUpTo(LexerTokens, MaxLen) : LexerNew(tokens)
    \/ LexerPeek
    \/ LexerNextToken
    \/ \E tokens \in SeqsUpTo(LexerTokens, MaxLen) : LexerExtend(tokens)

SpecLexer == Init /\ [][NextLexer]_vars

(***************************************************************************)
(* SpecExpr: operand/operator chains a op b op c ..., with a leaf rule for *)
(* identifiers, infix rules for Add and Mul at any level, and for Add with *)
(* any pair of left and right binding powers.                              *)
(***************************************************************************)
Operators == {Add, Mul}

\* a op1 b op2 c ... for the operators ops
Chain(ops) ==
    [i \in 1..(2 * Len(ops) + 1) |->
        IF i % 2 = 1 THEN Ident(OperandNames[(i + 1) \div 2]) ELSE ops[i \div 2]]

\* the chains and their prefixes
ExprStreams ==
    UNION {{SubSeq(Chain(ops), 1, n) : n \in 0..(2 * Len(ops) + 1)} :
           ops \in SeqsUpTo(Operators, MaxOperators)}

RegisterExpr ==
    \/ \E bp \in {Root, First} : AddNullAssoc(Ident(""), bp, "Leaf")
    \/ \E token \in Operators, bp \in Levels : AddLeftAssoc(token, bp, "Binary")
    \/ \E lbp \in Levels, rbp \in Levels : AddLeftRightAssoc(Add, lbp, rbp, "Binary")

NextExpr ==
    \/ RegisterExpr
    \/ \E tokens \in ExprStreams : New(tokens)
    \/ Parse
    \/ \E rbp \in Levels : ParseExpr(rbp)

SpecExpr == Init /\ [][NextExpr]_vars

(***************************************************************************)
(* Properties of expression parsing (SpecExpr).                            *)
(***************************************************************************)
\* the prefix rule of identifiers is the leaf rule
LeafIdent == /\ "Ident" \in DOMAIN null_map
             /\ null_map["Ident"].func = "Leaf"

\* `token` has the infix rule Binary with the given binding powers
Infix(token, lbp, rbp) ==
    /\ discriminant(token) \in DOMAIN left_map
    /\ left_map[discriminant(token)] = LeftInfo(lbp, rbp, "Binary")

\* `token` is registered as add_left_assoc registers it, at a level above Root
LeftAssoc(token) ==
    /\ discriminant(token) \in DOMAIN left_map
    /\ left_map[discriminant(token)].func = "Binary"
    /\ left_map[discriminant(token)].lbp = left_map[discriminant(token)].rbp
    /\ left_map[discriminant(token)].rbp > Root

LevelOf(token) == left_map[discriminant(token)].rbp

\* the last call was parse() on a fresh lexer holding `tokens`
ParsedFresh(tokens) ==
    /\ built
    /\ last.op = "parse"
    /\ last.pre = LexerVec_new(tokens)

\* the trees of x op1 y op2 z
RightNested(t) ==
    Composite(t[2], <<Simple(t[1]), Composite(t[4], <<Simple(t[3]), Simple(t[5])>>)>>)
LeftNested(t) ==
    Composite(t[4], <<Composite(t[2], <<Simple(t[1]), Simple(t[3])>>), Simple(t[5])>>)

\* the tree of a chain nested entirely to the left
RECURSIVE LeftNest(_)
LeftNest(t) ==
    IF Len(t) = 1 THEN Simple(t[1])
    ELSE Composite(t[Len(t) - 1],
                   <<LeftNest(SubSeq(t, 1, Len(t) - 2)), Simple(t[Len(t)])>>)

ABC(op1, op2) == <<Ident("a"), op1, Ident("b"), op2, Ident("c")>>

\* C1: higher binding power binds tighter.  With the leaf rule for identifiers,
\* Add at First and Mul at Second, parse() on [a, +, b, *, c] returns
\* Composite(+, [a, Composite(*, [b, c])]); and for every x op1 y op2 z whose
\* operators are registered left-associative at levels above Root, op2's node is
\* the right child of op1's node exactly when op2's level is strictly higher than
\* op1's, and otherwise op1's node is the left child of op2's node.
C1_HigherBindsTighter ==
    /\ (ParsedFresh(ABC(Add, Mul)) /\ LeafIdent
            /\ Infix(Add, First, First) /\ Infix(Mul, Second, Second))
          => last.res = Ok(Composite(Add, <<Simple(Ident("a")),
                             Composite(Mul, <<Simple(Ident("b")), Simple(Ident("c"))>>)>>))
    /\ \A op1 \in Operators, op2 \in Operators :
          (ParsedFresh(ABC(op1, op2)) /\ LeafIdent /\ LeftAssoc(op1) /\ LeftAssoc(op2))
             => last.res = IF LevelOf(op2) > LevelOf(op1)
                           THEN Ok(RightNested(ABC(op1, op2)))
                           ELSE Ok(LeftNested(ABC(op1, op2)))

C1_Witness ==
    /\ ParsedFresh(ABC(Add, Mul)) /\ LeafIdent
    /\ Infix(Add, First, First) /\ Infix(Mul, Second, Second)
    /\ last.res.tag = "Ok"

TableOf(op, nm, lm) == IF op = "add_null_assoc" THEN nm ELSE lm

Registrations == {"add_null_assoc", "add_left_assoc", "add_left_right_assoc"}

\* C7: write-once tables.  A registration for a kind that already has an entry in
\* its table returns Err(TokenToRuleAlreadyDefined) and leaves both tables as they
\* were, however often it is repeated; and no step, of the specification or of the
\* engine, removes or alters an entry, so parsing uses the first registration.
C7_WriteOnce ==
    [][/\ (last'.op \in Registrations
             /\ discriminant(last'.arg.token)
                   \in DOMAIN TableOf(last'.op, null_map, left_map))
          => /\ last'.res = Err(TokenToRuleAlreadyDefined(last'.arg.token))
             /\ null_map' = null_map
             /\ left_map' = left_map
       /\ \A k \in DOMAIN null_map : k \in DOMAIN null_map' /\ null_map'[k] = null_map[k]
       /\ \A k \in DOMAIN left_map : k \in DOMAIN left_map' /\ left_map'[k] = left_map[k]
      ]_vars

\* a prefix registration for a kind already registered with another binding power
\* was rejected
C7_Witness ==
    /\ last.op = "add_null_assoc"
    /\ last.res.tag = "Err"
    /\ null_map["Ident"].bp # last.arg.bp

(***************************************************************************)
(* Properties of the engine on arbitrary streams (Spec).                   *)
(***************************************************************************)
\* every event of the log that is a call of a registered rule
HandlerCalls(log) == {i \in 1..Len(log) : log[i][1] \in {"null", "left"}}

\* every event of the log that is a call of next_token
NextTokenCalls(log) == {i \in 1..Len(log) : log[i][1] = "next_token"}

\* before the last call every token of the stream had been delivered
WasExhausted == last.was = Len(last.pre.inner)

AB == <<Ident("a"), Comma, Ident("b"), RParens>>

\* C4: parse_sequence(level, separator = ',', end_token = ')') on [a, ',', b, ')']
\* with the leaf rule for identifiers and no infix rule returns [Ok(a), Ok(b)] and
\* leaves the lexer just past ')': the next peek returns no token.
C4_SequenceToEnd ==
    (/\ built
     /\ last.op = "parse_sequence"
     /\ last.arg.sep = Some(Comma)
     /\ last.arg.end_token = Some(RParens)
     /\ last.pre = LexerVec_new(AB)
     /\ LeafIdent
     /\ left_map = EmptyMap)
        => /\ last.res = Returned(<<Ok(Simple(Ident("a"))), Ok(Simple(Ident("b")))>>)
           /\ peek(lexer) = None

\* C5: with the identity grammar (a leaf prefix rule for the kind of the token, no
\* infix rule) and a one-token stream [t], the first parse() returns Ok(Simple(t))
\* and every later parse() returns Err(Incomplete).
C5_ParseThenIncomplete ==
    [][(/\ built
        /\ Len(lexer.inner) = 1
        /\ LeafIdent
        /\ discriminant(lexer.inner[1]) = "Ident"
        /\ left_map = EmptyMap
        /\ last'.op = "parse")
          => /\ last.op = "GeneralParser::new" => last'.res = Ok(Simple(lexer.inner[1]))
             /\ last.op = "parse" => last'.res = Err(Incomplete)
      ]_vars

\* C6: consume(x) on an exhausted stream (empty, or every token already delivered
\* through the engine) returns Err(Incomplete) for every x.
C6_ConsumeExhausted ==
    (built /\ last.op = "consume" /\ WasExhausted) => last.res = Err(Incomplete)

\* C8: consume(expected) on a stream that is not exhausted: if the next token equals
\* expected by full value, it returns Ok and the lexer has advanced by exactly one
\* token; otherwise it returns Err(ConsumeFailed{expected, found: the next token})
\* and the lexer is where it was.
C8_Consume ==
    (built /\ last.op = "consume" /\ ~WasExhausted)
       => LET next == last.pre.inner[last.pre.index + 1] IN
          IF next = last.arg
          THEN /\ last.res = Ok(Unit)
               /\ lexer = [last.pre EXCEPT !.index = last.pre.index + 1]
          ELSE /\ last.res = Err(ConsumeFailed(last.arg, next))
               /\ lexer = last.pre

\* C9: parse_expr (and parse) called when peek returns no token returns
\* Err(Incomplete), does not advance the lexer and calls no rule.
C9_IncompleteAtEnd ==
    (built /\ last.op \in {"parse", "parse_expr"} /\ peek(last.pre) = None)
       => /\ last.res = Err(Incomplete)
          /\ lexer = last.pre
          /\ NextTokenCalls(last.log) = {}
          /\ HandlerCalls(last.log) = {}

C9_Witness ==
    /\ built
    /\ last.op = "parse_expr"
    /\ peek(last.pre) = None
    /\ last.res = Err(Incomplete)

\* C10: parse_expr called when the kind of the next token has no prefix-table entry
\* returns Err(MissingRule{token, ty: "Null"}) with that token, calls no rule, and
\* has advanced the lexer past that one token.
C10_MissingNullRule ==
    (/\ built
     /\ last.op \in {"parse", "parse_expr"}
     /\ ~WasExhausted
     /\ discriminant(last.pre.inner[last.pre.index + 1]) \notin DOMAIN null_map)
       => /\ last.res = Err(MissingRule(last.pre.inner[last.pre.index + 1], "Null"))
          /\ HandlerCalls(last.log) = {}
          /\ lexer = [last.pre EXCEPT !.index = last.pre.index + 1]

\* C11: next_binds_tighter_than(rbp) leaves the lexer where it was, and returns true
\* exactly when there is a next token, its kind has an entry in the infix table and
\* the right binding power of that entry is strictly greater than rbp.
C11_NextBindsTighterThan ==
    (built /\ last.op = "next_binds_tighter_than")
       => /\ lexer = last.pre
          /\ NextTokenCalls(last.log) = {}
          /\ last.res = (/\ peek(last.pre).some
                         /\ discriminant(peek(last.pre).val) \in DOMAIN left_map
                         /\ left_map[discriminant(peek(last.pre).val)].rbp > last.arg)

\* it answered true in the middle of a stream
C11_Witness ==
    /\ built
    /\ last.op = "next_binds_tighter_than"
    /\ last.res = TRUE
    /\ last.pre.index > 0

\* the outcomes of the parse_expr calls parse_sequence made, in the order of the calls
Outcomes(log) ==
    LET calls == SelectSeq(log, LAMBDA e : e[1] = "parse_expr") IN
    [i \in 1..Len(calls) |-> calls[i][2]]

\* the Ok entries of a list of outcomes, in order
OkEntries(results) == SelectSeq(results, LAMBDA r : r.tag = "Ok")

\* C12: the list parse_sequence returns holds every expression its parse_expr calls
\* parsed successfully, as Ok entries in the order of the calls.
C12_EveryOutcomeListed ==
    (built /\ last.op = "parse_sequence" /\ last.res.tag = "Returned")
       => OkEntries(last.res.val) = OkEntries(Outcomes(last.log))

\* `tokens` is a run of complete expressions of the leaf grammar: identifiers, each
\* followed by the separator when there is one
IsSequence(tokens, sep) ==
    IF sep.some
    THEN /\ Len(tokens) % 2 = 0
         /\ \A i \in 1..Len(tokens) :
               IF i % 2 = 1 THEN discriminant(tokens[i]) = "Ident" ELSE tokens[i] = sep.val
    ELSE \A i \in 1..Len(tokens) : discriminant(tokens[i]) = "Ident"

\* the expressions of such a run, each parsed
Expressions(tokens) ==
    LET ids == SelectSeq(tokens, LAMBDA tk : discriminant(tk) = "Ident") IN
    [i \in 1..Len(ids) |-> Ok(Simple(ids[i]))]

\* C13: with no end token, parse_sequence on a fresh stream of n complete expressions
\* (each followed by the separator when one is configured) returns, and returns
\* exactly the n Ok entries of these expressions and no Err entry.
C13_CleanEndOfStream ==
    (/\ built
     /\ last.op = "parse_sequence"
     /\ last.arg.end_token = None
     /\ last.pre.index = 0 /\ last.was = 0
     /\ LeafIdent
     /\ left_map = EmptyMap
     /\ IsSequence(last.pre.inner, last.arg.sep))
        => last.res = Returned(Expressions(last.pre.inner))

\* In the leaf grammar, from cursor i: the 0-based position of the first token that
\* follows an expression and is not the separator; -1 when there is none
RECURSIVE Offender(_, _, _)
Offender(tokens, i, sep) ==
    IF i + 2 <= Len(tokens) /\ discriminant(tokens[i + 1]) = "Ident"
    THEN IF tokens[i + 2] = sep THEN Offender(tokens, i + 2, sep) ELSE i + 1
    ELSE -1

\* the last call was parse_sequence with a separator, in the leaf grammar, from a
\* cursor whose token had not been delivered, and met an offending token
MetOffender ==
    /\ built
    /\ last.op = "parse_sequence"
    /\ last.arg.sep.some
    /\ LeafIdent
    /\ left_map = EmptyMap
    /\ last.was = last.pre.index
    /\ Offender(last.pre.inner, last.pre.index, last.arg.sep.val) >= 0

\* C14: parse_sequence with a separator, when an expression is followed by a token t
\* that is not the separator.  If t is the configured end token, t is consumed (the
\* lexer stands just past it) and the list has no Err entry.  Otherwise the list ends
\* with Err(ConsumeFailed{expected: separator, found: t}), its only Err entry, and t
\* is still the next token.
C14_OffendingToken ==
    MetOffender =>
       LET p == Offender(last.pre.inner, last.pre.index, last.arg.sep.val)
           t == last.pre.inner[p + 1]
           results == last.res.val
       IN  /\ last.res.tag = "Returned"
           /\ IF last.arg.end_token = Some(t)
              THEN /\ \A i \in 1..Len(results) : results[i].tag = "Ok"
                   /\ last.log[Len(last.log)] = EvNext(p, t)
                   /\ lexer = [last.pre EXCEPT !.index = p + 1]
              ELSE /\ Len(results) >= 1
                   /\ results[Len(results)] = Err(ConsumeFailed(last.arg.sep.val, t))
                   /\ \A i \in 1..(Len(results) - 1) : results[i].tag = "Ok"
                   /\ lexer = [last.pre EXCEPT !.index = p]
                   /\ peek(lexer) = Some(t)

\* C15: any failure recorded by parse_sequence ends it.  The list it returns holds
\* at most one Err entry, and an Err entry is its last element.
C15_FailureEndsSequence ==
    (built /\ last.op = "parse_sequence" /\ last.res.tag = "Returned")
       => \A i \in 1..Len(last.res.val) :
             last.res.val[i].tag = "Err" => i = Len(last.res.val)

(***************************************************************************)
(* Properties of the precedence-climbing loop (SpecExpr).                  *)
(***************************************************************************)
AOpB(op) == <<Ident("a"), op, Ident("b")>>

\* the rbp of the last call, a parse or a parse_expr
Threshold == IF last.op = "parse" THEN Root ELSE last.arg

\* C16: ties break toward stopping.  parse_expr(rbp) on [a, op, b] absorbs op only
\* if op's registered right binding power is strictly greater than rbp; when it is
\* equal to or lower than rbp, parse_expr returns the node of a and op is still the
\* next token.
C16_TiesStop ==
    \A op \in Operators :
        (/\ built
         /\ last.op \in {"parse", "parse_expr"}
         /\ last.pre = LexerVec_new(AOpB(op))
         /\ LeafIdent
         /\ discriminant(op) \in DOMAIN left_map
         /\ left_map[discriminant(op)].func = "Binary")
           => IF left_map[discriminant(op)].rbp > Threshold
              THEN last.res = Ok(Composite(op, <<Simple(Ident("a")), Simple(Ident("b"))>>))
              ELSE /\ last.res = Ok(Simple(Ident("a")))
                   /\ lexer = [last.pre EXCEPT !.index = 1]
                   /\ peek(lexer) = Some(op)
                   /\ consumed = 1

\* parse_expr(First) met an operator whose right binding power is First
C16_Witness ==
    /\ built
    /\ last.op = "parse_expr"
    /\ last.arg = First
    /\ last.pre = LexerVec_new(AOpB(Add))
    /\ LeafIdent
    /\ Infix(Add, First, First)
    /\ last.res = Ok(Simple(Ident("a")))

\* parse() returned Ok and a token of the stream has not been delivered
ParsedWithRest ==
    /\ built
    /\ last.op = "parse"
    /\ last.res.tag = "Ok"
    /\ consumed < Len(lexer.inner)

\* the next token that has not been delivered
NextUnconsumed == lexer.inner[consumed + 1]

\* C17 as claimed: Root is the least level, parse() returns what parse_expr(Root)
\* returns, and whenever parse() returns Ok the next unconsumed token, if any, has
\* no entry in the infix table.
C17_Claimed ==
    /\ \A l \in PrecedenceLevel : Root <= l
    /\ built => parse(Engine) = parse_expr(Engine, Root, {})
    /\ ParsedWithRest => discriminant(NextUnconsumed) \notin DOMAIN left_map

\* C17 amended: Root is the least level, parse() returns what parse_expr(Root)
\* returns, and whenever parse() returns Ok the next unconsumed token, if any, has
\* no infix entry whose right binding power is above Root.
C17_RootIsLeast ==
    /\ \A l \in PrecedenceLevel : Root <= l
    /\ built => parse(Engine) = parse_expr(Engine, Root, {})
    /\ ParsedWithRest =>
          \/ discriminant(NextUnconsumed) \notin DOMAIN left_map
          \/ left_map[discriminant(NextUnconsumed)].rbp = Root

\* parse() stopped in front of an operator
C17_Witness ==
    /\ ParsedWithRest
    /\ discriminant(NextUnconsumed) \in DOMAIN left_map
    /\ peek(lexer) = Some(NextUnconsumed)

(***************************************************************************)
(* Properties of the engine with rules that fail (SpecRules).              *)
(***************************************************************************)
\* the events of the log at which a registered rule returned an error
ErrEvents(log) == {i \in 1..Len(log) : log[i][1] = "handler_err"}

\* the first of them
FirstErr(log) == CHOOSE i \in ErrEvents(log) : \A j \in ErrEvents(log) : i <= j

\* C18: an error returned by a prefix or infix rule inside parse_expr is what
\* parse_expr returns, and it is terminal: after the rule has returned it the engine
\* takes no token, looks at no token and calls no rule; the only thing that follows
\* is the enclosing rules returning the same error.
C18_HandlerErrorTerminal ==
    (built /\ last.op \in {"parse", "parse_expr"} /\ ErrEvents(last.log) # {})
       => LET first == FirstErr(last.log)
              e == last.log[first][2]
          IN  /\ last.res = Err(e)
              /\ \A i \in first..Len(last.log) : last.log[i] = EvErr(e)

\* the parenthesis rule failed on its own account (no ')') after an expression
\* was parsed inside it
C18_Witness ==
    /\ built
    /\ last.op = "parse"
    /\ ErrEvents(last.log) # {}
    /\ last.res.tag = "Err"
    /\ last.res.err.type = "ConsumeFailed"
    /\ HandlerCalls(last.log) # {}

\* C19: once GeneralParser::new has taken the specification, no engine call (parse,
\* parse_expr, parse_sequence, consume, next_binds_tighter_than; failing or not,
\* with the calls its rules make) adds, removes or alters an entry of the prefix
\* or the infix table.
C19_TablesFrozen ==
    [][built => (null_map' = null_map /\ left_map' = left_map)]_vars

\* a failing parse_sequence whose binary rule re-entered parse_expr
C19_Witness ==
    /\ built
    /\ last.op = "parse_sequence"
    /\ null_map # EmptyMap
    /\ left_map # EmptyMap
    /\ last.res.tag = "Returned"
    /\ \E i \in 1..Len(last.res.val) : last.res.val[i].tag = "Err"
    /\ \E i \in 1..Len(last.log) : last.log[i][1] = "left"

\* the calls of the lexer in a log, in order
LexerCalls(log) == SelectSeq(log, LAMBDA e : e[1] \in {"peek", "next_token"})

\* lexer calls made from cursor `start` on the stream `inner`: each is at the cursor
\* the one before it left (the same position, or the next one after a next_token),
\* and each next_token follows a peek at its position and returns the token there
AtCursor(calls, start, inner) ==
    \A i \in 1..Len(calls) :
        LET at == calls[i][2]
            before == IF i = 1 THEN start ELSE calls[i - 1][2]
        IN  /\ at >= before
            /\ at <= before + 1
            /\ at = before + 1 => (i > 1 /\ calls[i - 1][1] = "next_token")
            /\ calls[i][1] = "next_token" =>
                  /\ i > 1
                  /\ calls[i - 1] = EvPeek(at)
                  /\ calls[i][3] = inner[at + 1]

\* C20: the engine never rewinds the lexer and looks at most one token ahead.  In
\* every engine call, failing or not, the cursor does not decrease and the stream
\* is not altered; every lexer call is at the current cursor, and every token taken
\* is the token a peek has just returned.
C20_NeverRewinds ==
    [][(built /\ built')
          => /\ lexer'.index >= lexer.index
             /\ lexer'.inner = lexer.inner
             /\ AtCursor(LexerCalls(last'.log), lexer.index, lexer.inner)
             /\ \A i \in 1..Len(LexerCalls(last'.log)) :
                   LexerCalls(last'.log)[i][2] <= lexer'.index
      ]_vars

\* a consume that failed in the middle of a stream
C20_Witness ==
    /\ built
    /\ last.op = "consume"
    /\ last.res.tag = "Err"
    /\ last.pre.index > 0
    /\ lexer = last.pre


(***************************************************************************)
(* Properties of building the tables (SpecTables).                         *)
(***************************************************************************)
BulkRegistrations ==
    {"add_null_associations", "add_left_associations", "add_left_right_associations"}

\* the table a bulk registration writes
BulkTableOf(op, nm, lm) == IF op = "add_null_associations" THEN nm ELSE lm

\* the entry a bulk registration gives to each kind it registers
RuleOf(call) ==
    IF call.op = "add_null_associations" THEN NullInfo(call.arg.bp, call.arg.func)
    ELSE IF call.op = "add_left_associations"
         THEN LeftInfo(call.arg.bp, call.arg.bp, call.arg.func)
         ELSE LeftInfo(call.arg.lbp, call.arg.rbp, call.arg.func)

\* the first position of the list whose kind has an entry in m or stands earlier in
\* the list; Len(tokens) + 1 when there is none
FirstDuplicate(m, tokens) ==
    LET dups == {i \in 1..Len(tokens) :
                    \/ discriminant(tokens[i]) \in DOMAIN m
                    \/ \E j \in 1..(i - 1) :
                          discriminant(tokens[j]) = discriminant(tokens[i])}
    IN  IF dups = {} THEN Len(tokens) + 1
        ELSE CHOOSE i \in dups : \A j \in dups : i <= j

\* C21: a bulk registration registers the listed kinds in list order and stops at the
\* first kind that already has an entry: it returns TokenToRuleAlreadyDefined for
\* that token, the kinds before it are registered with the given rule, that kind and
\* every kind after it are left as they were, and the other table is not touched.
C21_BulkStopsAtDuplicate ==
    [][last'.op \in BulkRegistrations =>
          LET tokens == last'.arg.tokens
              old == BulkTableOf(last'.op, null_map, left_map)
              new == BulkTableOf(last'.op, null_map', left_map')
              d == FirstDuplicate(old, tokens)
              before == {discriminant(tokens[i]) : i \in 1..(d - 1)}
          IN  /\ last'.res = IF d <= Len(tokens)
                             THEN Err(TokenToRuleAlreadyDefined(tokens[d]))
                             ELSE Ok(Unit)
              /\ DOMAIN new = (DOMAIN old) \cup before
              /\ \A k \in before : new[k] = RuleOf(last')
              /\ \A k \in DOMAIN old : new[k] = old[k]
              /\ last'.op = "add_null_associations" => left_map' = left_map
              /\ last'.op # "add_null_associations" => null_map' = null_map
      ]_vars

\* a bulk prefix registration of three tokens stopped at its second, a duplicate of
\* the first, and left the kind of the third without an entry
C21_Witness ==
    /\ last.op = "add_null_associations"
    /\ Len(last.arg.tokens) = 3
    /\ last.res = Err(TokenToRuleAlreadyDefined(last.arg.tokens[2]))
    /\ discriminant(last.arg.tokens[1]) \in DOMAIN null_map
    /\ discriminant(last.arg.tokens[3]) \notin DOMAIN null_map


(***************************************************************************)
(* Properties of the engine with rules that fail on their own (SpecC).     *)
(***************************************************************************)
EngineOps == {"parse", "parse_expr", "parse_sequence", "consume"}

\* the errors a call of the engine handed to its caller
ErrorsOf(call) ==
    IF call.res.tag = "Err" THEN {call.res.err}
    ELSE IF call.res.tag = "Returned"
    THEN {call.res.val[i].err :
             i \in {j \in 1..Len(call.res.val) : call.res.val[j].tag = "Err"}}
    ELSE {}

\* C22: the errors the engine hands out are Incomplete, MissingRule, ConsumeFailed
\* or the MalformedSyntax of a registered rule: with no rule registered that returns
\* MalformedSyntax, no engine operation returns it; and no engine operation returns
\* the duplicate-rule error of the table builder.
C22_EngineErrors ==
    (built /\ last.op \in EngineOps) =>
       \A e \in ErrorsOf(last) :
          /\ e.type \in {"Incomplete", "MissingRule", "ConsumeFailed", "MalformedSyntax"}
          /\ e.type = "MalformedSyntax" =>
                /\ "Question" \in DOMAIN left_map
                /\ \E i \in 1..Len(last.log) :
                      last.log[i][1] = "left" /\ last.log[i][2] = Question

\* parse_sequence over a grammar without the ternary rule listed an error, with `?`
\* in the stream
C22_Witness ==
    /\ built
    /\ last.op = "parse_sequence"
    /\ "Question" \notin DOMAIN left_map
    /\ DOMAIN null_map # {}
    /\ \E i \in 1..Len(lexer.inner) : lexer.inner[i] = Question
    /\ ErrorsOf(last) # {}


\* C23: rule lookup goes by the kind of a token, never by its payload.  A
\* registration for a token whose kind has an entry is rejected whatever its payload;
\* and during a parse every token in prefix position is handed to the prefix entry
\* of its kind and every operator to the infix entry of its kind, whatever payload
\* the token carries and whatever payload the registration was made with.
C23_LookupByKind ==
    [][/\ (/\ last'.op \in Registrations
           /\ last'.arg.token.kind \in DOMAIN TableOf(last'.op, null_map, left_map))
          => /\ last'.res = Err(TokenToRuleAlreadyDefined(last'.arg.token))
             /\ null_map' = null_map
             /\ left_map' = left_map
       /\ last'.op = "parse" =>
             /\ \A i \in 1..Len(last'.log) :
                   LET e == last'.log[i] IN
                   /\ e[1] = "null" =>
                         /\ e[2].kind \in DOMAIN null_map
                         /\ e[3] = null_map[e[2].kind].bp
                   /\ e[1] = "left" =>
                         /\ e[2].kind \in DOMAIN left_map
                         /\ e[3] = left_map[e[2].kind].lbp
             /\ (last'.res.tag = "Err" /\ last'.res.err.type = "MissingRule")
                   => last'.res.err.token.kind
                         \notin DOMAIN (IF last'.res.err.ty = "Null"
                                        THEN null_map ELSE left_map)
      ]_vars

\* identifiers y, x, y parsed with the one prefix and the one infix entry of the
\* kind: x in infix position took the two y for its operands
C23_Witness ==
    /\ built
    /\ last.op = "parse"
    /\ last.pre.inner = <<Ident("y"), Ident("x"), Ident("y"), Add>>
    /\ last.res = Ok(Composite(Ident("x"), <<Simple(Ident("y")), Simple(Ident("y"))>>))


(***************************************************************************)
(* Properties of what the rules are handed (SpecExpr).                     *)
(***************************************************************************)
RECURSIVE LeftmostLeaf(_)
\* the first token of the input a node was built from
LeftmostLeaf(node) ==
    IF node.node = "Simple" THEN node.token ELSE LeftmostLeaf(node.children[1])

\* the rbp of the parse_expr call whose loop holds `left`: the call of the last
\* operation if `left` starts at the token that call started at, else the call a
\* binary rule made after taking the operator in front of that token, with the
\* binding power the rule was handed
EnclosingRbp(left) ==
    LET inner == last.pre.inner
        p == CHOOSE q \in 1..Len(inner) : inner[q] = LeftmostLeaf(left)
    IN  IF p = last.pre.index + 1 THEN Threshold
        ELSE left_map[inner[p - 1].kind].lbp

\* `left` is what a rule called before event i returned: the leaf of a prefix rule,
\* or the node a binary rule built on the left node it was handed
ReturnedBefore(i, left) ==
    \E j \in 1..(i - 1) :
        LET e == last.log[j] IN
        IF left.node = "Simple"
        THEN e[1] = "null" /\ e[2] = left.token
        ELSE e[1] = "left" /\ e[2] = left.token /\ e[4] = left.children[1]

\* C24: parse_expr hands the prefix rule the binding power registered for the
\* token's kind in the prefix table, not its own rbp; it hands the infix rule the
\* registered left binding power of the operator, enters the loop body for an
\* operator only when the operator's registered right binding power is above the rbp
\* of the call, and the left node it hands over is what the previous rule returned.
C24_WhatRulesReceive ==
    (built /\ last.op \in {"parse", "parse_expr"}) =>
       \A i \in 1..Len(last.log) :
          LET e == last.log[i] IN
          /\ e[1] = "null" => e[3] = null_map[e[2].kind].bp
          /\ e[1] = "left" =>
                /\ e[3] = left_map[e[2].kind].lbp
                /\ left_map[e[2].kind].rbp > EnclosingRbp(e[4])
                /\ ReturnedBefore(i, e[4])

\* parse_expr(Root) with the leaf rule registered at First and + registered with
\* left Second, right First: the rule of + was handed Second and the leaf a
C24_Witness ==
    /\ built
    /\ last.op = "parse_expr"
    /\ last.arg = Root
    /\ LeafIdent
    /\ null_map["Ident"].bp = First
    /\ Infix(Add, Second, First)
    /\ \E i \in 1..Len(last.log) : last.log[i] = EvLeft(Add, Second, Simple(Ident("a")))
    /\ last.res.tag = "Ok"


\* what parse() returns on the stream `tokens` with the tables nm and lm
ParseWith(nm, lm, tokens) == parse(GeneralParser_new(nm, lm, LexerVec_new(tokens))).res

\* C25: add_left_assoc(token, bp, func) is add_left_right_assoc(token, bp, bp, func):
\* from the same tables both return the same result and leave the same infix table,
\* whose new entry has left and right binding power bp, and the prefix table as it
\* was; every stream is then parsed alike.
C25_LeftIsLeftRight ==
    [][/\ last'.op = "add_left_assoc" =>
             LET a == last'.arg
                 r == add_left_right_assoc(left_map, a.token, a.bp, a.bp, a.func)
             IN  /\ last'.res = r.res
                 /\ left_map' = r.map
                 /\ null_map' = null_map
                 /\ last'.res = Ok(Unit) =>
                       left_map'[a.token.kind] = LeftInfo(a.bp, a.bp, a.func)
                 /\ \A tokens \in TableStreams :
                       ParseWith(null_map', left_map', tokens)
                          = ParseWith(null_map, r.map, tokens)
       /\ (last'.op = "add_left_right_assoc" /\ last'.arg.lbp = last'.arg.rbp) =>
             LET a == last'.arg
                 r == add_left_assoc(left_map, a.token, a.lbp, a.func)
             IN  /\ last'.res = r.res
                 /\ left_map' = r.map
                 /\ null_map' = null_map
      ]_vars

\* add_left_assoc registered an operator on top of a prefix rule and another infix
\* rule
C25_Witness ==
    /\ last.op = "add_left_assoc"
    /\ last.res = Ok(Unit)
    /\ last.arg.token = Add
    /\ left_map["Add"] = LeftInfo(last.arg.bp, last.arg.bp, "Binary")
    /\ "Ident" \in DOMAIN left_map
    /\ "Ident" \in DOMAIN null_map


\* C26: the prefix and the infix table are independent.  A prefix registration
\* succeeds exactly when the kind has no prefix entry, whatever the infix table
\* holds, and leaves the infix table as it was; an infix registration succeeds
\* exactly when the kind has no infix entry, whatever the prefix table holds, and
\* leaves the prefix table as it was; add_left_assoc and add_left_right_assoc write
\* the one infix table, so each fails for a kind the other has registered.
C26_TablesIndependent ==
    [][/\ last'.op = "add_null_assoc" =>
             LET k == last'.arg.token.kind IN
             /\ left_map' = left_map
             /\ last'.res = IF k \in DOMAIN null_map
                            THEN Err(TokenToRuleAlreadyDefined(last'.arg.token))
                            ELSE Ok(Unit)
             /\ DOMAIN null_map' = (DOMAIN null_map) \cup {k}
       /\ last'.op \in {"add_left_assoc", "add_left_right_assoc"} =>
             LET k == last'.arg.token.kind IN
             /\ null_map' = null_map
             /\ last'.res = IF k \in DOMAIN left_map
                            THEN Err(TokenToRuleAlreadyDefined(last'.arg.token))
                            ELSE Ok(Unit)
             /\ DOMAIN left_map' = (DOMAIN left_map) \cup {k}
      ]_vars

\* add_left_right_assoc failed for a kind whose infix entry, with both binding
\* powers First, was made by add_left_assoc; the kind has a prefix entry as well
C26_Witness ==
    /\ last.op = "add_left_right_assoc"
    /\ last.res = Err(TokenToRuleAlreadyDefined(last.arg.token))
    /\ last.arg.token.kind \in DOMAIN null_map
    /\ left_map[last.arg.token.kind] = LeftInfo(First, First, "Binary")


\* C27: every iteration of the infix loop takes the operator before its rule runs, so
\* every token the engine looks at after a rule was called lies strictly later in the
\* stream than the operator; and parse() returns on every finite stream held in a
\* LexerVec, also when the last token is an infix operator whose rule reads no
\* input.
C27_ParseTerminates ==
    (built /\ last.op = "parse") =>
       /\ last.res.tag # "Diverges"
       /\ \A i \in 2..Len(last.log) :
             last.log[i][1] = "left" =>
                \A j \in (i + 1)..Len(last.log) :
                   last.log[j][1] = "peek" => last.log[j][2] > last.log[i - 1][2]


(***************************************************************************)
(* Properties of the engine's use of the lexer (Spec).                     *)
(***************************************************************************)
\* C28: the engine calls next_token only directly after a peek at the same position
\* that returned a token, so never on an empty lexer, never at a position that holds
\* no token, and never outside the bounds of the LexerVec: in parse, parse_expr,
\* parse_sequence and consume, each next_token is the lexer call after a peek of its
\* position, and that position holds a token.
C28_NextTokenAfterPeek ==
    (built /\ last.op \in EngineOps) =>
       LET calls == LexerCalls(last.log) IN
       \A i \in 1..Len(calls) :
          calls[i][1] = "next_token" =>
             /\ i > 1
             /\ calls[i - 1] = EvPeek(calls[i][2])
             /\ last.pre.inner # <<>>
             /\ calls[i][2] + 1 \in DOMAIN last.pre.inner
             /\ peek([last.pre EXCEPT !.index = calls[i][2]]) = Some(calls[i][3])

\* parse_sequence took three tokens and more, up to the last token of the stream
C28_Witness ==
    /\ built
    /\ last.op = "parse_sequence"
    /\ Cardinality(NextTokenCalls(last.log)) >= 3
    /\ lexer.index + 1 = Len(lexer.inner)
    /\ last.res.tag = "Returned"


(***************************************************************************)
(* Properties of LexerVec (SpecLexer).                                     *)
(***************************************************************************)
\* the tokens the next_token calls of a log returned, in order
TokensTaken(log) == [i \in 1..Len(log) |-> log[i][3]]

\* C29: a LexerVec delivers its tokens once each, in order.  peek returns the token
\* at the cursor and does not move it; next_token returns the token peek would have
\* returned and moves the cursor forward by one; the tokens n calls of next_token
\* have returned are the first n tokens of the vector, tokens appended with extend
\* included, and once all of them have been returned peek returns None.
C29_OnceEachInOrder ==
    /\ last.op = "peek" => (lexer = last.pre /\ last.res = peek(lexer))
    /\ last.op = "next_token" =>
          /\ Some(last.res) = peek(last.pre)
          /\ lexer = [last.pre EXCEPT !.index = @ + 1]
    /\ last.op \in {"peek", "next_token", "extend"} =>
          /\ Len(last.log) <= Len(lexer.inner)
          /\ TokensTaken(last.log) = SubSeq(lexer.inner, 1, Len(last.log))
          /\ Len(last.log) = Len(lexer.inner) => peek(lexer) = None


\* C30: MissingRule with ty "Left" is unreachable.  The loop body of parse_expr is
\* entered only for a token that has an infix entry, the token next_token then
\* returns is that token and the tables are unchanged, so the lookup after the
\* advance finds the entry: no engine call returns or lists MissingRule "Left", and
\* no rule gets it from a parse_expr it calls.
C30_NoMissingLeftRule ==
    (built /\ last.op \in EngineOps) =>
       /\ \A e \in ErrorsOf(last) : ~(e.type = "MissingRule" /\ e.ty = "Left")
       /\ \A i \in ErrEvents(last.log) :
             ~(last.log[i][2].type = "MissingRule" /\ last.log[i][2].ty = "Left")
       /\ \A i \in 2..Len(last.log) :
             last.log[i][1] = "left" =>
                /\ last.log[i - 1][1] = "next_token"
                /\ last.log[i - 1][3] = last.log[i][2]
                /\ last.log[i][2].kind \in DOMAIN left_map

\* parse() called an infix rule and ended with a missing prefix rule
C30_Witness ==
    /\ built
    /\ last.op = "parse"
    /\ \E i \in 1..Len(last.log) : last.log[i][1] = "left"
    /\ last.res.tag = "Err"
    /\ last.res.err.type = "MissingRule"
    /\ last.res.err.ty = "Null"

====
